---- MODULE Spec2Model ----
(***************************************************************************)
(* Model of src/app.py: the /chat request handler of the FRED analyst,     *)
(* with its two helpers get_fred_series_id and generate_analysis, the      *)
(* text-generation client and the FRED data client.  One behaviour is one  *)
(* request; every outbound call is logged in calls.                        *)
(***************************************************************************)
EXTENDS Integers, Sequences, FiniteSets, TLC

(* ---------------------------- bounds ----------------------------------- *)
MaxLen  == 14   \* longest observation window the data provider returns
MaxGaps == 2    \* most missing (NaN) observations in one window
MaxWrap == 2    \* most wrapper characters on each side of the model's reply

(* ------------------------ program constants ---------------------------- *)
TrendMinLen   == 12   \* len(series_data) > 12
YearAgoOffset == 13   \* series_data.iloc[-13]

GEMINI_API_KEY == "env:GEMINI_API_KEY"
FRED_API_KEY   == "env:FRED_API_KEY"
\* client = genai.Client(api_key=GEMINI_API_KEY): the one module-level client
client == [api_key |-> GEMINI_API_KEY]
\* fred = Fred(api_key=FRED_API_KEY)
fred == [api_key |-> FRED_API_KEY]

(* ------------------------------ text ----------------------------------- *)
Whitespace == {" "}
\* the three characters the resolver deletes; the backtick cannot be written
\* inside a TLA+ string, so it is named
BACKTICK == "<backtick>"
DQUOTE   == "\""
SQUOTE   == "'"
QuoteChars == {BACKTICK, DQUOTE, SQUOTE}
LowerCase  == <<"a","b","c","d","e","f","g","h","i","j","k","l","m",
                "n","o","p","q","r","s","t","u","v","w","x","y","z">>
UpperCase  == <<"A","B","C","D","E","F","G","H","I","J","K","L","M",
                "N","O","P","Q","R","S","T","U","V","W","X","Y","Z">>

\* the sentinel "NONE"
NONE == <<"N","O","N","E">>

IsLower(c) == \E i \in 1..Len(LowerCase) : LowerCase[i] = c

\* str.upper() on one character
UpperChar(c) ==
  IF IsLower(c) THEN UpperCase[CHOOSE i \in 1..Len(LowerCase) : LowerCase[i] = c]
  ELSE c

\* str.upper()
Upper(s) == [i \in 1..Len(s) |-> UpperChar(s[i])]

RECURSIVE LStrip(_)
LStrip(s) == IF s # <<>> /\ Head(s) \in Whitespace THEN LStrip(Tail(s)) ELSE s

RECURSIVE RStrip(_)
RStrip(s) ==
  IF s # <<>> /\ s[Len(s)] \in Whitespace THEN RStrip(SubSeq(s, 1, Len(s) - 1)) ELSE s

\* str.strip(): drops leading and trailing whitespace only
Strip(s) == RStrip(LStrip(s))

\* str.replace(ch, ''): drops every occurrence of ch
Replace(s, ch) == SelectSeq(s, LAMBDA c : c # ch)

\* lines 58-61: response.text.strip().upper(), then the three replace calls
Normalize(text) == Replace(Replace(Replace(Upper(Strip(text)), BACKTICK), DQUOTE), SQUOTE)

\* Python truthiness of a str, as in "not user_input"
Truthy(s) == s # <<>>

(* --------------------------- numbers ----------------------------------- *)
\* a float: either NaN or a number
NaN    == [nan |-> TRUE,  v |-> 0]
Num(x) == [nan |-> FALSE, v |-> x]

\* pd.isna(x)
IsNa(x) == x.nan

\* a - b on floats: NaN is absorbing
Sub(a, b) == IF a.nan \/ b.nan THEN NaN ELSE Num(a.v - b.v)

\* abs(x)
Abs(x) == IF x.nan THEN NaN ELSE Num(IF x.v < 0 THEN 0 - x.v ELSE x.v)

\* x > 0 on floats: every comparison with NaN is False
GtZero(x) == ~x.nan /\ x.v > 0

\* series.iloc[k] for a negative position k
Iloc(s, k) == s[Len(s) + k + 1]

\* index.strftime('%Y-%m-%d') of the monthly period d: <<year, month, day>>
Strftime(d) == <<2016 + ((d - 1) \div 12), ((d - 1) % 12) + 1, 1>>

(* --------------------------- inputs ------------------------------------ *)
\* request bodies: the "message" and "custom_api_key" fields may be absent
Messages == {<<>>, <<" ">>, <<"g","d","p">>}
Requests ==
  [has_message : BOOLEAN, message : Messages,
   has_key : BOOLEAN, custom_api_key : {"", "user-key"}]

\* a request body as the client sends it: an absent field carries no value
WellFormed(d) ==
  /\ (~d.has_message => d.message = <<>>)
  /\ (~d.has_key => d.custom_api_key = "")

\* data.get('message', '')
GetMessage(d) == IF d.has_message THEN d.message ELSE <<>>

\* replies of the text-generation model to the classification prompt:
\* a word wrapped in up to MaxWrap whitespace or quote characters per side
Words == {NONE, <<"n","o","n","e">>, <<"g","d","p">>, <<"G","D","P">>, <<>>}
WrapChars == Whitespace \cup QuoteChars
Wrappers == UNION {[1..n -> WrapChars] : n \in 0..MaxWrap}
Replies == {p \o w \o q : p \in Wrappers, w \in Words, q \in Wrappers}

\* response.text of a generate_content call that did not raise:
\* None (no candidate text) or a string
NoText     == [kind |-> "none", text |-> <<>>]
SomeText(t) == [kind |-> "text", text |-> t]

\* observation windows: n monthly observations, ascending by date, rising,
\* falling or flat, with at most MaxGaps observations missing
Shapes == {"rising", "falling", "flat"}
ShapeValue(shape, n, i) ==
  CASE shape = "rising"  -> i
    [] shape = "falling" -> n + 1 - i
    [] shape = "flat"    -> n
GapSets(n) == {g \in SUBSET (1..n) : Cardinality(g) <= MaxGaps}
MkWindow(n, shape, gaps) ==
  [i \in 1..n |->
     [date |-> i,
      value |-> IF i \in gaps THEN NaN ELSE Num(ShapeValue(shape, n, i))]]
Windows ==
  {MkWindow(n, shape, gaps) : n \in 0..MaxLen, shape \in Shapes, gaps \in GapSets(MaxLen)}

(* ---------------------------- state ------------------------------------ *)
VARIABLES
  pc,            \* position of chat(): start, normalize, refusal, fetch, info, build, narrate, done
  data,          \* request.json
  user_input,    \* data.get('message', '')
  genText,       \* response.text inside get_fred_series_id, between the call and the return
  series_id,     \* result of get_fred_series_id
  series_data,   \* fred.get_series(...)
  trend_desc,    \* the trend description
  dates,         \* chart labels
  values,        \* chart values
  chart_payload, \* the chart payload built in step 3
  latest_val,    \* values[-1]
  last_date,     \* dates[-1]
  response,      \* the JSON object returned to the caller
  calls          \* log of outbound calls, in order

vars == <<pc, data, user_input, genText, series_id, series_data, trend_desc,
          dates, values, chart_payload, latest_val, last_date, response, calls>>

locals == <<series_data, trend_desc, dates, values, chart_payload, latest_val, last_date>>

NoChart   == [built |-> FALSE, labels |-> <<>>, data |-> <<>>, series_id |-> <<>>]
NoTrend   == [dir |-> "unset", mag |-> NaN]
Pending   == [response |-> [kind |-> "pending", id |-> <<>>],
              has_chart |-> FALSE, chart_data |-> NoChart]

\* jsonify({"response": text}) : no chart_data key
TextOnly(text) == [response |-> text, has_chart |-> FALSE, chart_data |-> NoChart]

\* jsonify({"response": analysis_text, "chart_data": chart_payload})
WithChart(text, payload) == [response |-> text, has_chart |-> TRUE, chart_data |-> payload]

\* the response texts
InvalidQueryText  == [kind |-> "invalid_query", id |-> <<>>]    \* "Please enter a valid query."
StaticRefusalText == [kind |-> "static_refusal", id |-> <<>>]   \* "I can only analyze US economic data. ..."
GeneratedText     == [kind |-> "generated", id |-> <<>>]        \* response.text, a str
NoneText          == [kind |-> "none", id |-> <<>>]             \* response.text is None
FallbackSentence  == [kind |-> "fallback", id |-> <<>>]         \* "The current value for ... is ..."
\* "I found the series ID '{series_id}' but couldn't retrieve the data. ..."
UnavailableText(id) == [kind |-> "unavailable", id |-> id]

\* one outbound call: client.models.generate_content uses the module-level
\* client, fred.get_series / fred.get_series_info use the module-level fred
GenCall(op, ok)  == [svc |-> "gen",  op |-> op, cred |-> client.api_key, ok |-> ok]
FredCall(op, ok) == [svc |-> "fred", op |-> op, cred |-> fred.api_key,   ok |-> ok]

\* variant of DataFailure that does not name the identifier it was given
DataFailureWrongId(id) == TextOnly(UnavailableText(NONE))
\* the except branch of chat(), lines 218-222
DataFailure(id) == TextOnly(UnavailableText(id))

\* variant of TrendDesc that compares with the observation 12 positions from
\* the end
TrendDescShifted(s) ==
  IF Len(s) > TrendMinLen
  THEN LET diff == Sub(Iloc(s, -1).value, Iloc(s, 1 - YearAgoOffset).value)
       IN  [dir |-> IF GtZero(diff) THEN "up" ELSE "down", mag |-> Abs(diff)]
  ELSE [dir |-> "insufficient", mag |-> NaN]
\* lines 169-177: trend of the raw window
TrendDesc(s) ==
  IF Len(s) > TrendMinLen
  THEN LET val_now      == Iloc(s, -1).value
           val_year_ago == Iloc(s, 0 - YearAgoOffset).value
           diff         == Sub(val_now, val_year_ago)
       IN  [dir |-> IF GtZero(diff) THEN "up" ELSE "down", mag |-> Abs(diff)]
  ELSE [dir |-> "insufficient", mag |-> NaN]

\* line 180: series_data.index.strftime('%Y-%m-%d').tolist()
Dates(s) == [i \in 1..Len(s) |-> Strftime(s[i].date)]

\* line 181: [float(x) for x in series_data.values if not pd.isna(x)]
RECURSIVE Values(_)
Values(s) ==
  IF s = <<>> THEN <<>>
  ELSE IF IsNa(Head(s).value) THEN Values(Tail(s))
       ELSE <<Head(s).value>> \o Values(Tail(s))

\* lines 183-204
ChartPayload(labels, vals, id) ==
  [built |-> TRUE, labels |-> labels, data |-> vals, series_id |-> id]

Init ==
  /\ data \in {d \in Requests : WellFormed(d)}
  /\ pc = "start"
  /\ user_input = GetMessage(data)
  /\ genText = NoText
  /\ series_id = <<>>
  /\ series_data = <<>>
  /\ trend_desc = NoTrend
  /\ dates = <<>>
  /\ values = <<>>
  /\ chart_payload = NoChart
  /\ latest_val = NaN
  /\ last_date = <<>>
  /\ response = Pending
  /\ calls = <<>>

\* lines 136-137: empty or missing message
ShortCircuit ==
  /\ pc = "start"
  /\ ~Truthy(user_input)
  /\ response' = TextOnly(InvalidQueryText)
  /\ pc' = "done"
  /\ UNCHANGED <<data, user_input, genText, series_id, locals, calls>>

\* variant of ResolveCall that repeats a classification call that raised
ResolveCallRetry ==
  /\ pc = "start"
  /\ Truthy(user_input)
  /\ \/ /\ calls' = calls \o <<GenCall("resolution", FALSE), GenCall("resolution", FALSE)>>
        /\ series_id' = NONE
        /\ pc' = "refusal"
        /\ UNCHANGED genText
     \/ /\ \E t \in {NoText} \cup {SomeText(r) : r \in Replies} : genText' = t
        /\ calls' = Append(calls, GenCall("resolution", TRUE))
        /\ pc' = "normalize"
        /\ UNCHANGED series_id
  /\ UNCHANGED <<data, user_input, locals, response>>
\* lines 140, 53-57, 62-64: the classification call of get_fred_series_id;
\* it raises, or returns a response whose text is None or a string
ResolveCall ==
  /\ pc = "start"
  /\ Truthy(user_input)
  /\ \/ /\ calls' = Append(calls, GenCall("resolution", FALSE))
        /\ series_id' = NONE
        /\ pc' = "refusal"
        /\ UNCHANGED genText
     \/ /\ \E t \in {NoText} \cup {SomeText(r) : r \in Replies} : genText' = t
        /\ calls' = Append(calls, GenCall("resolution", TRUE))
        /\ pc' = "normalize"
        /\ UNCHANGED series_id
  /\ UNCHANGED <<data, user_input, locals, response>>

\* lines 58-64 and 142: normalise the reply, return it, branch on "NONE";
\* None.strip() raises AttributeError, which the except maps to "NONE"
NormalizeReply ==
  /\ pc = "normalize"
  /\ series_id' = IF genText.kind = "none" THEN NONE ELSE Normalize(genText.text)
  /\ pc' = IF series_id' = NONE THEN "refusal" ELSE "fetch"
  /\ genText' = NoText
  /\ UNCHANGED <<data, user_input, locals, response, calls>>

\* lines 142-158: the refusal call and its static fallback
RefusalCall ==
  /\ pc = "refusal"
  /\ \/ /\ calls' = Append(calls, GenCall("refusal", FALSE))
        /\ response' = TextOnly(StaticRefusalText)
     \/ /\ calls' = Append(calls, GenCall("refusal", TRUE))
        /\ \E t \in {NoneText, GeneratedText} : response' = TextOnly(t)
  /\ pc' = "done"
  /\ UNCHANGED <<data, user_input, genText, series_id, locals>>

\* lines 162-163 and 218-222: fred.get_series raises or returns a window
FetchSeries ==
  /\ pc = "fetch"
  /\ \/ /\ calls' = Append(calls, FredCall("get_series", FALSE))
        /\ response' = DataFailure(series_id)
        /\ pc' = "done"
        /\ UNCHANGED series_data
     \/ /\ calls' = Append(calls, FredCall("get_series", TRUE))
        /\ \E w \in Windows : series_data' = w
        /\ pc' = "info"
        /\ UNCHANGED response
  /\ UNCHANGED <<data, user_input, genText, series_id, trend_desc, dates, values,
                 chart_payload, latest_val, last_date>>

\* lines 164-167 and 218-222: fred.get_series_info raises or returns
FetchInfo ==
  /\ pc = "info"
  /\ \/ /\ calls' = Append(calls, FredCall("get_series_info", FALSE))
        /\ response' = DataFailure(series_id)
        /\ pc' = "done"
     \/ /\ calls' = Append(calls, FredCall("get_series_info", TRUE))
        /\ pc' = "build"
        /\ UNCHANGED response
  /\ UNCHANGED <<data, user_input, genText, series_id, locals>>

\* lines 169-208 and 218-222: trend, chart payload, latest value and date.
\* strftime raises on the index of an empty window (line 180) and values[-1]
\* raises on an empty list (line 207); both land in the except branch
BuildPayload ==
  /\ pc = "build"
  /\ trend_desc' = TrendDesc(series_data)
  /\ IF series_data = <<>>
     THEN /\ response' = DataFailure(series_id)
          /\ pc' = "done"
          /\ UNCHANGED <<dates, values, chart_payload, latest_val, last_date>>
     ELSE /\ dates' = Dates(series_data)
          /\ values' = Values(series_data)
          /\ chart_payload' = ChartPayload(dates', values', series_id)
          /\ IF values' = <<>>
             THEN /\ response' = DataFailure(series_id)
                  /\ pc' = "done"
                  /\ UNCHANGED <<latest_val, last_date>>
             ELSE /\ latest_val' = Iloc(values', -1)
                  /\ last_date' = Iloc(dates', -1)
                  /\ pc' = "narrate"
                  /\ UNCHANGED response
  /\ UNCHANGED <<data, user_input, genText, series_id, series_data, calls>>

\* lines 211-216 and 113-121: generate_analysis and the final response
NarrativeCall ==
  /\ pc = "narrate"
  /\ \/ /\ calls' = Append(calls, GenCall("narrative", FALSE))
        /\ response' = WithChart(FallbackSentence, chart_payload)
     \/ /\ calls' = Append(calls, GenCall("narrative", TRUE))
        /\ \E t \in {NoneText, GeneratedText} : response' = WithChart(t, chart_payload)
  /\ pc' = "done"
  /\ UNCHANGED <<data, user_input, genText, series_id, locals>>

Next ==
  \/ ShortCircuit
  \/ ResolveCall
  \/ NormalizeReply
  \/ RefusalCall
  \/ FetchSeries
  \/ FetchInfo
  \/ BuildPayload
  \/ NarrativeCall

Spec == Init /\ [][Next]_vars

(* ------------------------- derived views ------------------------------- *)
Made(op)   == \E i \in 1..Len(calls) : calls[i].op = op
Failed(op) == \E i \in 1..Len(calls) : calls[i].op = op /\ ~calls[i].ok
Count(svc) == Cardinality({i \in 1..Len(calls) : calls[i].svc = svc})
Returned   == pc = "done"

\* position of a call in the pipeline: resolution, then refusal or the data
\* fetch, then the narrative
Rank(op) ==
  CASE op = "resolution"      -> 1
    [] op = "refusal"         -> 2
    [] op = "get_series"      -> 2
    [] op = "get_series_info" -> 3
    [] op = "narrative"       -> 4

\* missing, empty or whitespace-only query text
IsBlank(d) == ~d.has_message \/ \A i \in 1..Len(d.message) : d.message[i] \in Whitespace

\* the credential the request asks for
RequestedCredential(d) ==
  IF d.has_key /\ d.custom_api_key # "" THEN d.custom_api_key ELSE GEMINI_API_KEY

\* an identifier in normal form
InNormalForm(id) ==
  /\ (id # <<>> => id[1] \notin Whitespace /\ id[Len(id)] \notin Whitespace)
  /\ \A i \in 1..Len(id) : ~IsLower(id[i]) /\ id[i] \notin QuoteChars

\* the word NONE wrapped in whitespace, backticks and quotes
IsWrappedNone(t) ==
  \E i \in 1..Len(t) : \E j \in i..Len(t) :
    /\ SubSeq(t, i, j) = NONE
    /\ \A k \in (1..Len(t)) \ (i..j) : t[k] \in WrapChars

\* labels and values of a payload are index-aligned observations of the window
Aligned(payload, window) ==
  /\ Len(payload.labels) = Len(payload.data)
  /\ \A i \in 1..Len(payload.labels) :
       \E k \in 1..Len(window) :
         /\ Strftime(window[k].date) = payload.labels[i]
         /\ ~IsNa(window[k].value)
         /\ i <= Len(payload.data) /\ window[k].value = payload.data[i]

(* ------------------------------ claims --------------------------------- *)

\* C1: whenever a response carries chart data, its labels and values have the
\* same length and are index-aligned: values[i] is the value observed on the
\* date labels[i], and no label belongs to a missing observation.
C1_ChartAligned ==
  (Returned /\ response.has_chart) => Aligned(response.chart_data, series_data)

\* C2: a response carries chart data if and only if the resolver returned an
\* identifier other than NONE, both data-provider calls succeeded and the
\* chart payload was constructed; a failed narrative call keeps the chart.
C2_ChartIffDataPath ==
  Returned =>
    /\ response.has_chart <=>
         /\ series_id # NONE
         /\ Made("get_series") /\ ~Failed("get_series")
         /\ Made("get_series_info") /\ ~Failed("get_series_info")
         /\ chart_payload.built
    /\ (Failed("narrative") => response.has_chart)

\* C3: a request whose query text is missing, empty or whitespace-only makes
\* no outbound call and is answered with the fixed invalid-query response.
C3_BlankShortCircuits ==
  IsBlank(data) =>
    /\ calls = <<>>
    /\ (Returned => response = TextOnly(InvalidQueryText))

\* C4: every text-generation call of a request uses the request's credential
\* override when one is supplied and non-empty, and the process default
\* otherwise.
C4_OverrideUsed ==
  \A i \in 1..Len(calls) :
    calls[i].svc = "gen" => calls[i].cred = RequestedCredential(data)

\* C5 as stated: at most two text-generation calls, at most one data-provider
\* call, in pipeline order, never both refusal and narrative, nothing retried.
C5_OneProviderCall ==
  /\ Count("gen") <= 2
  /\ Count("fred") <= 1
  /\ ~(Made("refusal") /\ Made("narrative"))
  /\ \A i \in 1..Len(calls) : \A j \in 1..Len(calls) :
       i < j => Rank(calls[i].op) < Rank(calls[j].op)

\* C5 amended: at most two text-generation calls and at most two
\* data-provider calls (observations, then metadata), in pipeline order, never
\* both refusal and narrative, no operation called twice, and nothing is
\* called after a failed data-provider call.
C5_CallBudget ==
  /\ Count("gen") <= 2
  /\ Count("fred") <= 2
  /\ ~(Made("refusal") /\ Made("narrative"))
  /\ \A i \in 1..Len(calls) : \A j \in 1..Len(calls) :
       i < j => /\ Rank(calls[i].op) < Rank(calls[j].op)
                /\ (calls[i].svc = "fred" => calls[i].ok)

C5_Witness ==
  /\ Returned
  /\ Count("gen") = 2 /\ Count("fred") = 2
  /\ Failed("narrative")

\* C6: every request ends with a response whose response field is a text
\* string, and a failed refusal call yields the static refusal string.
C6_AlwaysText ==
  Returned =>
    /\ response.response.kind \notin {"none", "pending"}
    /\ (Failed("refusal") => response = TextOnly(StaticRefusalText))

\* C7: when the resolver returned an identifier other than NONE and a
\* data-provider fetch raised, the response names exactly that identifier as
\* not retrievable, carries no chart data, and no narrative call was made.
C7_DataFailureNamesId ==
  (Returned /\ series_id # NONE /\ (Failed("get_series") \/ Failed("get_series_info"))) =>
    /\ response.response = UnavailableText(series_id)
    /\ ~response.has_chart
    /\ ~Made("narrative")

C7_Witness ==
  /\ Returned
  /\ series_id = <<"G","D","P">>
  /\ Failed("get_series_info")
  /\ response.response.kind = "unavailable"

\* C8: the trend says "insufficient data" iff the window has 12 or fewer
\* observations; otherwise it says "up" iff the last observation of the raw
\* window is strictly greater than the one 13 positions from its end, and
\* "down" in every other case, whatever the chart filtering removed.
C8_TrendRule ==
  pc \in {"narrate"} \/ (Returned /\ Made("get_series_info") /\ ~Failed("get_series_info")) =>
    LET n    == Len(series_data)
        last == series_data[n].value
        prev == series_data[n - 12].value
    IN  /\ trend_desc.dir = "insufficient" <=> n <= 12
        /\ n > 12 =>
             /\ trend_desc.dir = "up" <=> (~last.nan /\ ~prev.nan /\ last.v > prev.v)
             /\ trend_desc.dir \in {"up", "down"}

C8_Witness ==
  /\ pc = "narrate"
  /\ trend_desc.dir = "up"
  /\ Len(values) < Len(series_data)

\* C9: the identifier returned by get_fred_series_id is in normal form, and a
\* reply that is the word NONE wrapped in whitespace, backticks and quotes is
\* resolved to exactly NONE and routed to the refusal path.
C9_NormalForm ==
  [][(pc = "normalize" /\ pc' # "normalize") =>
       /\ InNormalForm(series_id')
       /\ (genText.kind = "text" /\ IsWrappedNone(genText.text)) =>
            (series_id' = NONE /\ pc' = "refusal")]_vars

\* C10: the latest value and the report date handed to the narrative composer
\* belong to the same observation of the fetched window.
C10_LatestSameObservation ==
  Made("narrative") =>
    \E k \in 1..Len(series_data) :
      /\ Strftime(series_data[k].date) = last_date
      /\ series_data[k].value = latest_val
====
